---------------------------- MODULE Spec2Model ----------------------------
(***************************************************************************)
(* Model of the hike-telemetry scripts map.py, map2.py and map3.py: the    *)
(* tolerant record parsers (load_hike_data / load_data), the empty-result  *)
(* check, and the distance / speed / altitude computation.                 *)
(*                                                                         *)
(* The input file is a sequence of tokens.  The punctuation the parsers    *)
(* look at is kept character by character: "{", "}", ",", " " and "\n".    *)
(* The member list between two braces (for example                         *)
(*   "lat":1,"lng":1,"altitude":10,"timestamp":"1:5" )                     *)
(* is one token, the name of a body; Body maps it to the dict json.loads   *)
(* builds from it.  "5" is a JSON scalar.  A timestamp is a sequence of    *)
(* characters.  Distances are in metres, speeds in metres per hour.        *)
(***************************************************************************)
EXTENDS Integers, Sequences, FiniteSets, TLC

VARIABLES
    prog,       \* which script runs: "map", "map2" or "map3"
    frags,      \* the fragments the input file was written from (history)
    trail,      \* the separators that follow the last fragment (history)
    text,       \* the content of the input file
    pc,         \* position of the script
    data,       \* load_data's local list of decoded values
    hike_data,  \* the script's global list of records
    output,     \* what the script printed
    raised,     \* the uncaught exception that ended the script, or "none"
    i,          \* loop index of map3.py's distance / speed loop
    distances, speeds, altitudes,
    dist, dt,   \* map3.py's globals of the last loop iteration
    t, seconds  \* argument and outcome of a single time_to_seconds call

vars == <<prog, frags, trail, text, pc, data, hike_data, output, raised, i,
          distances, speeds, altitudes, dist, dt, t, seconds>>

-----------------------------------------------------------------------------
(* Bounds of the model *)

MaxFrags == 3
MaxTsLen == 7

-----------------------------------------------------------------------------
(* Inputs *)

Ws == {" ", "\n"}

Body ==
    [ a |-> [lat |-> 1, lng |-> 1, altitude |-> 10,
             timestamp |-> <<"1", ":", "5">>],
      b |-> [lat |-> 1, lng |-> 0,
             timestamp |-> <<"0", ":", "1", ":", "7">>],
      c |-> [lat |-> 0, lng |-> 1, altitude |-> 20,
             timestamp |-> <<"0", ":", "1", ":", "5">>],
      k |-> [lat |-> 1, lng |-> 1, altitude |-> 10,
             timestamp |-> <<"b", "a", "d">>],
      u |-> [lat |-> 0, lng |-> 1, altitude |-> 20],
      z |-> [lat |-> 0, lng |-> 0, altitude |-> 5,
             timestamp |-> <<"1", ":", "5">>],
      n |-> [lng |-> 1, altitude |-> 10, timestamp |-> <<"1", ":", "5">>],
      m |-> [lat |-> 1, altitude |-> 10, timestamp |-> <<"1", ":", "5">>] ]

BodyNames == DOMAIN Body

Scalar == [scalar |-> 5]

Obj(bd) == <<"{", bd, "}">>

WellFormedFrags == {Obj(bd) : bd \in BodyNames}

TruncatedFrags == {<<"{", "a">>}

FragSet == WellFormedFrags \cup TruncatedFrags \cup {<<"5">>}

Sep == <<",", "\n">>

Trailers ==
    { <<>>, <<",">>, <<",", "\n">>, <<",", ",">>, <<",", " ", ",">>,
      <<"\n", ",">> }

RECURSIVE Join(_)
Join(fs) ==
    IF fs = <<>> THEN <<>>
    ELSE IF Len(fs) = 1 THEN fs[1]
    ELSE fs[1] \o Sep \o Join(Tail(fs))

Render(fs, tr) == Join(fs) \o tr

-----------------------------------------------------------------------------
(* String helpers *)

Min(S) == CHOOSE x \in S : \A y \in S : x <= y

RECURSIVE LStrip(_)
LStrip(s) == IF s # <<>> /\ s[1] \in Ws THEN LStrip(Tail(s)) ELSE s

RECURSIVE RStrip(_)
RStrip(s) ==
    IF s # <<>> /\ s[Len(s)] \in Ws THEN RStrip(SubSeq(s, 1, Len(s) - 1))
    ELSE s

Strip(s) == LStrip(RStrip(s))

RECURSIVE RStripComma(_)
RStripComma(s) ==
    IF s # <<>> /\ s[Len(s)] = "," THEN RStripComma(SubSeq(s, 1, Len(s) - 1))
    ELSE s

RECURSIVE SplitFrom(_, _, _, _)
SplitFrom(s, sep, p, cur) ==
    IF p > Len(s) THEN <<cur>>
    ELSE IF s[p] = sep THEN <<cur>> \o SplitFrom(s, sep, p + 1, <<>>)
    ELSE SplitFrom(s, sep, p + 1, Append(cur, s[p]))

Split(s, sep) == SplitFrom(s, sep, 1, <<>>)

NoWs(s) == SelectSeq(s, LAMBDA ch : ch \notin Ws)

-----------------------------------------------------------------------------
(* json.loads on the token text *)

IsValue(w) ==
    \/ w = <<"{", "}">>
    \/ Len(w) = 3 /\ w[1] = "{" /\ w[2] \in BodyNames /\ w[3] = "}"
    \/ w = <<"5">>

ValueOf(w) ==
    IF w = <<"{", "}">> THEN <<>>
    ELSE IF w = <<"5">> THEN Scalar
    ELSE Body[w[2]]

JsonLoads(toks) ==
    LET w == NoWs(toks) IN
    IF Len(w) >= 2 /\ w[1] = "[" /\ w[Len(w)] = "]"
    THEN LET inner == SubSeq(w, 2, Len(w) - 1)
             parts == Split(inner, ",")
         IN  IF inner = <<>> THEN [ok |-> TRUE, val |-> <<>>]
             ELSE IF \A j \in 1..Len(parts) : IsValue(parts[j])
             THEN [ok |-> TRUE,
                   val |-> [j \in 1..Len(parts) |-> ValueOf(parts[j])]]
             ELSE [ok |-> FALSE, val |-> <<>>]
    ELSE IF IsValue(w) THEN [ok |-> TRUE, val |-> ValueOf(w)]
    ELSE [ok |-> FALSE, val |-> <<>>]

IsDict(p) == "scalar" \notin DOMAIN p

-----------------------------------------------------------------------------
(* The regular expressions of map2.py and map.py *)

NextBrace(s, p) ==
    LET S == {j \in p..Len(s) : s[j] \in {"{", "}"}} IN
    IF S = {} THEN 0 ELSE Min(S)

RECURSIVE FindObjects2(_, _)
FindObjects2(s, p) ==
    IF p > Len(s) THEN <<>>
    ELSE IF s[p] # "{" THEN FindObjects2(s, p + 1)
    ELSE LET q == NextBrace(s, p + 1) IN
         IF q = 0 \/ s[q] = "{" THEN FindObjects2(s, p + 1)
         ELSE <<SubSeq(s, p, q)>> \o FindObjects2(s, q + 1)

AtEnd(s, p) == p = Len(s) + 1 \/ (p = Len(s) /\ s[p] = "\n")

CommaBrace(s, p) ==
    \E cm \in p..Len(s) : \E br \in (cm + 1)..Len(s) :
        /\ s[cm] = ","
        /\ s[br] = "{"
        /\ \A j \in p..(cm - 1) : s[j] \in Ws
        /\ \A j \in (cm + 1)..(br - 1) : s[j] \in Ws

RECURSIVE FindObjects1(_, _)
FindObjects1(s, p) ==
    IF p > Len(s) THEN <<>>
    ELSE IF s[p] # "{" THEN FindObjects1(s, p + 1)
    ELSE LET Q == {q \in (p + 1)..Len(s) :
                      s[q] = "}" /\ (CommaBrace(s, q + 1) \/ AtEnd(s, q + 1))}
         IN  IF Q = {} THEN FindObjects1(s, p + 1)
             ELSE <<SubSeq(s, p, Min(Q))>> \o FindObjects1(s, Min(Q) + 1)

-----------------------------------------------------------------------------
(* map3.py: haversine and time_to_seconds *)

Abs(x) == IF x < 0 THEN -x ELSE x

\* R * c of haversine() in metres, rounded, for whole-degree coordinates in
\* {0, 1}: keyed by <<lat1, lat2, |lon2 - lon1|>>.
HaversineMetres ==
    ( <<0, 0, 0>> :> 0      @@ <<0, 0, 1>> :> 111195 @@
      <<0, 1, 0>> :> 111195 @@ <<0, 1, 1>> :> 157249 @@
      <<1, 0, 0>> :> 111195 @@ <<1, 0, 1>> :> 157249 @@
      <<1, 1, 0>> :> 0      @@ <<1, 1, 1>> :> 111178 )

haversine(lon1, lat1, lon2, lat2) ==
    HaversineMetres[<<lat1, lat2, Abs(lon2 - lon1)>>]

\* geopy's geodesic(prev, curr) on the WGS-84 ellipsoid, in metres, rounded,
\* for the same coordinates.
GeodesicMetres ==
    ( <<0, 0, 0>> :> 0      @@ <<0, 0, 1>> :> 111319 @@
      <<0, 1, 0>> :> 110574 @@ <<0, 1, 1>> :> 156900 @@
      <<1, 0, 0>> :> 110574 @@ <<1, 0, 1>> :> 156900 @@
      <<1, 1, 0>> :> 0      @@ <<1, 1, 1>> :> 111303 )

geodesic(prev, curr) ==
    GeodesicMetres[<<prev[1], curr[1], Abs(curr[2] - prev[2])>>]

Digits == {"0", "1", "2", "3", "4", "5", "6", "7", "8", "9"}

DigitVal(ch) ==
    CASE ch = "0" -> 0 [] ch = "1" -> 1 [] ch = "2" -> 2 [] ch = "3" -> 3
      [] ch = "4" -> 4 [] ch = "5" -> 5 [] ch = "6" -> 6 [] ch = "7" -> 7
      [] ch = "8" -> 8 [] ch = "9" -> 9

RECURSIVE DecVal(_)
DecVal(s) ==
    IF s = <<>> THEN 0
    ELSE DecVal(SubSeq(s, 1, Len(s) - 1)) * 10 + DigitVal(s[Len(s)])

\* int(p): surrounding whitespace and one sign are accepted, then decimal
\* digits only; anything else raises ValueError.
Unsigned(p) ==
    LET q == Strip(p) IN
    IF q # <<>> /\ q[1] \in {"+", "-"} THEN Tail(q) ELSE q

IntOk(p) ==
    LET r == Unsigned(p) IN r # <<>> /\ \A j \in 1..Len(r) : r[j] \in Digits

IntOf(p) ==
    LET q == Strip(p) IN
    IF q[1] = "-" THEN -DecVal(Unsigned(p)) ELSE DecVal(Unsigned(p))

PadLeft(parts) ==
    [j \in 1..(3 - Len(parts)) |-> 0] \o parts

time_to_seconds(ts) ==
    LET strs == Split(Strip(ts), ":") IN
    IF \E j \in 1..Len(strs) : ~IntOk(strs[j])
    THEN [err |-> "ValueError", v |-> 0]
    ELSE IF Len(strs) > 3
    THEN [err |-> "ValueError", v |-> 0]
    ELSE LET parts == PadLeft([j \in 1..Len(strs) |-> IntOf(strs[j])])
         IN  [err |-> "none",
              v |-> parts[1] * 3600 + parts[2] * 60 + parts[3]]

\* map3.py line 76, in Python's order of evaluation: curr['timestamp'],
\* time_to_seconds(curr), prev['timestamp'], time_to_seconds(prev).
TimeDiff(prev, curr) ==
    IF "timestamp" \notin DOMAIN curr THEN [err |-> "KeyError", v |-> 0]
    ELSE IF time_to_seconds(curr.timestamp).err # "none"
    THEN [err |-> "ValueError", v |-> 0]
    ELSE IF "timestamp" \notin DOMAIN prev THEN [err |-> "KeyError", v |-> 0]
    ELSE IF time_to_seconds(prev.timestamp).err # "none"
    THEN [err |-> "ValueError", v |-> 0]
    ELSE [err |-> "none",
          v |-> time_to_seconds(curr.timestamp).v
                - time_to_seconds(prev.timestamp).v]

\* A floor of 0 instead of 1.
FloorDtZero(d) == IF d > 0 THEN d ELSE 0

\* map3.py line 77: dt = max(dt, 1)
FloorDt(d) == IF d > 1 THEN d ELSE 1

-----------------------------------------------------------------------------
(* The three parsers *)

Get(p, key, default) == IF key \in DOMAIN p THEN p[key] ELSE default

\* One pass of the "for obj in json_objects" loop over all matches.
RECURSIVE DecodeObjects(_)
DecodeObjects(objs) ==
    IF objs = <<>> THEN [data |-> <<>>, out |-> <<>>]
    ELSE LET rest == DecodeObjects(Tail(objs))
             s    == Strip(objs[1])
             obj  == IF s # <<>> /\ s[Len(s)] # "}" THEN Append(s, "}") ELSE s
             r    == JsonLoads(obj)
         IN  IF s = <<>> \/ s[1] # "{" THEN rest
             ELSE IF r.ok
             THEN [data |-> <<r.val>> \o rest.data, out |-> rest.out]
             ELSE [data |-> rest.data,
                   out  |-> <<"Skipping malformed object">> \o rest.out]

\* map.py line 36: point['lat'] != 0 or point['lng'] != 0
KeyError1(p) ==
    "lat" \notin DOMAIN p \/ (p.lat = 0 /\ "lng" \notin DOMAIN p)

KeepPoint1(p) == p.lat # 0 \/ p.lng # 0

load_hike_data(txt) ==
    LET content == RStripComma(Strip(txt))
        dec     == DecodeObjects(FindObjects1(content, 1))
    IN  IF \E j \in 1..Len(dec.data) : KeyError1(dec.data[j])
        THEN [data |-> dec.data, ret |-> <<>>, out |-> dec.out,
              err |-> "KeyError"]
        ELSE [data |-> dec.data, ret |-> SelectSeq(dec.data, KeepPoint1),
              out |-> dec.out, err |-> "none"]

\* map2.py line 36: point.get('lat', 1) != 0 or point.get('lng', 1) != 0
KeepPoint2(p) == Get(p, "lat", 1) # 0 \/ Get(p, "lng", 1) # 0

load_data2(txt) ==
    LET content == RStripComma(Strip(txt))
        dec     == DecodeObjects(FindObjects2(content, 1))
    IN  [data |-> dec.data, ret |-> SelectSeq(dec.data, KeepPoint2),
         out |-> dec.out, err |-> "none"]

\* "and" written for "or": a point on the equator or the prime meridian is
\* dropped with the sentinel.
KeepPoint3And(p) ==
    /\ IsDict(p)
    /\ "lat" \in DOMAIN p /\ "lng" \in DOMAIN p
    /\ (p.lat # 0 /\ p.lng # 0)

\* map3.py lines 48-53
KeepPoint3(p) ==
    /\ IsDict(p)
    /\ "lat" \in DOMAIN p /\ "lng" \in DOMAIN p
    /\ (p.lat # 0 \/ p.lng # 0)

load_data3(txt) ==
    LET s1 == Strip(txt)
        s2 == IF s1 # <<>> /\ s1[Len(s1)] = ","
              THEN SubSeq(s1, 1, Len(s1) - 1) ELSE s1
        r  == JsonLoads(<<"[">> \o s2 \o <<"]">>)
    IN  IF ~r.ok
        THEN [data |-> <<>>, ret |-> <<>>, out |-> <<"JSON error">>,
              err |-> "none"]
        ELSE [data |-> r.val, ret |-> SelectSeq(r.val, KeepPoint3),
              out |-> <<>>, err |-> "none"]

Load(pg, txt) ==
    CASE pg = "map"  -> load_hike_data(txt)
      [] pg = "map2" -> load_data2(txt)
      [] pg = "map3" -> load_data3(txt)

\* The leg appended without the running total.
AppendLeg(ds, d) == Append(ds, d)

\* map3.py line 74: distances.append(distances[-1] + dist)
AppendDistance(ds, d) == Append(ds, ds[Len(ds)] + d)

\* map2.py calculate_distances
RECURSIVE CumDist(_, _)
CumDist(points, j) ==
    IF j <= 1 THEN 0
    ELSE CumDist(points, j - 1)
         + geodesic(<<points[j - 1].lat, points[j - 1].lng>>,
                    <<points[j].lat, points[j].lng>>)

calculate_distances(points) ==
    [j \in 1..(IF Len(points) = 0 THEN 1 ELSE Len(points)) |->
        CumDist(points, j)]

-----------------------------------------------------------------------------
(* The scripts *)

Progs == {"map", "map2", "map3"}

FragSeqs == UNION {[1..len -> FragSet] : len \in 0..MaxFrags}

NoData == "No valid data points found!"

Init ==
    /\ prog \in Progs
    /\ frags \in FragSeqs
    /\ trail \in Trailers
    /\ text = Render(frags, trail)
    /\ pc = "load"
    /\ data = <<>>
    /\ hike_data = <<>>
    /\ output = <<>>
    /\ raised = "none"
    /\ i = 0
    /\ distances = <<>>
    /\ speeds = <<>>
    /\ altitudes = <<>>
    /\ dist = 0
    /\ dt = 0
    /\ t = <<>>
    /\ seconds = [err |-> "none", v |-> 0]

\* hike_data = load_...('152025.json')
LoadData ==
    /\ pc = "load"
    /\ LET r == Load(prog, text) IN
        /\ data' = r.data
        /\ output' = output \o r.out
        /\ IF r.err = "none"
           THEN hike_data' = r.ret /\ pc' = "check" /\ raised' = raised
           ELSE hike_data' = hike_data /\ pc' = "crashed" /\ raised' = r.err
    /\ UNCHANGED <<prog, frags, trail, text, i, distances, speeds, altitudes,
                   dist, dt, t, seconds>>

\* The check without its exit(): the script goes on with an empty list.
CheckEmptyNoExit ==
    /\ pc = "check"
    /\ output' = IF hike_data = <<>> THEN Append(output, NoData) ELSE output
    /\ IF prog = "map3"
       THEN distances' = <<0>> /\ speeds' = <<0>> /\ i' = 1 /\ pc' = "loop"
       ELSE UNCHANGED <<distances, speeds, i>>
            /\ pc' = IF prog = "map2" THEN "metrics" ELSE "extract"
    /\ UNCHANGED <<prog, frags, trail, text, data, hike_data, raised,
                   altitudes, dist, dt, t, seconds>>

\* if not hike_data: print(...); exit()   (and, in map3.py, the two list
\* initialisations that follow it)
CheckEmpty ==
    /\ pc = "check"
    /\ IF hike_data = <<>>
       THEN /\ output' = Append(output, NoData)
            /\ pc' = "halted"
            /\ UNCHANGED <<distances, speeds, i>>
       ELSE /\ output' = output
            /\ IF prog = "map3"
               THEN distances' = <<0>> /\ speeds' = <<0>> /\ i' = 1
                    /\ pc' = "loop"
               ELSE UNCHANGED <<distances, speeds, i>>
                    /\ pc' = IF prog = "map2" THEN "metrics" ELSE "extract"
    /\ UNCHANGED <<prog, frags, trail, text, data, hike_data, raised,
                   altitudes, dist, dt, t, seconds>>

\* One iteration of map3.py's "for i in range(1, len(hike_data))".
LoopStep ==
    /\ pc = "loop"
    /\ i < Len(hike_data)
    /\ LET prev == hike_data[i]
           curr == hike_data[i + 1]
           d    == haversine(prev.lng, prev.lat, curr.lng, curr.lat)
       IN
        /\ dist' = d
        /\ distances' = AppendDistance(distances, d)
        /\ LET df == TimeDiff(prev, curr)
               fl == FloorDt(df.v)
           IN  IF df.err # "none"
               THEN /\ raised' = df.err /\ pc' = "crashed"
                    /\ UNCHANGED <<dt, speeds, i>>
               ELSE /\ dt' = fl
                    /\ IF fl = 0
                       THEN /\ raised' = "ZeroDivisionError"
                            /\ pc' = "crashed"
                            /\ UNCHANGED <<speeds, i>>
                       ELSE /\ speeds' = Append(speeds, (d * 3600) \div fl)
                            /\ i' = i + 1
                            /\ UNCHANGED <<raised, pc>>
    /\ UNCHANGED <<prog, frags, trail, text, data, hike_data, output,
                   altitudes, t, seconds>>

\* map3.py line 81, after the loop
Altitudes3 ==
    /\ pc = "loop"
    /\ i >= Len(hike_data)
    /\ altitudes' = [j \in 1..Len(hike_data) |->
                        Get(hike_data[j], "altitude", 0)]
    /\ pc' = "render"
    /\ UNCHANGED <<prog, frags, trail, text, data, hike_data, output, raised,
                   i, distances, speeds, dist, dt, t, seconds>>

\* map2.py lines 56-57
Metrics2 ==
    /\ pc = "metrics"
    /\ IF /\ Len(hike_data) >= 2
          /\ \E j \in 1..Len(hike_data) :
                "lat" \notin DOMAIN hike_data[j]
                \/ "lng" \notin DOMAIN hike_data[j]
       THEN /\ raised' = "KeyError" /\ pc' = "crashed"
            /\ UNCHANGED <<distances, altitudes>>
       ELSE /\ distances' = calculate_distances(hike_data)
            /\ altitudes' = [j \in 1..Len(hike_data) |->
                                Get(hike_data[j], "altitude", 0)]
            /\ pc' = "render"
            /\ raised' = raised
    /\ UNCHANGED <<prog, frags, trail, text, data, hike_data, output, i,
                   speeds, dist, dt, t, seconds>>

\* map.py lines 48-53
Extract1 ==
    /\ pc = "extract"
    /\ IF \E j \in 1..Len(hike_data) :
            {"lat", "lng", "altitude"} \ DOMAIN hike_data[j] # {}
       THEN /\ raised' = "KeyError" /\ pc' = "crashed"
            /\ altitudes' = altitudes
       ELSE /\ altitudes' = [j \in 1..Len(hike_data) |->
                                hike_data[j].altitude]
            /\ pc' = "render"
            /\ raised' = raised
    /\ UNCHANGED <<prog, frags, trail, text, data, hike_data, output, i,
                   distances, speeds, dist, dt, t, seconds>>

Next ==
    \/ LoadData
    \/ CheckEmpty
    \/ LoopStep
    \/ Altitudes3
    \/ Metrics2
    \/ Extract1

Spec == Init /\ [][Next]_vars

-----------------------------------------------------------------------------
(* time_to_seconds on its own: every string over TsChars up to MaxTsLen *)

TsChars == {"1", "5", ":", "x", " "}

TsStrings == UNION {[1..len -> TsChars] : len \in 0..MaxTsLen}

InitTime ==
    /\ t \in TsStrings
    /\ pc = "time"
    /\ seconds = [err |-> "pending", v |-> 0]
    /\ prog = "map3"
    /\ frags = <<>>
    /\ trail = <<>>
    /\ text = <<>>
    /\ data = <<>>
    /\ hike_data = <<>>
    /\ output = <<>>
    /\ raised = "none"
    /\ i = 0
    /\ distances = <<>>
    /\ speeds = <<>>
    /\ altitudes = <<>>
    /\ dist = 0
    /\ dt = 0

TimeToSeconds ==
    /\ pc = "time"
    /\ seconds' = time_to_seconds(t)
    /\ raised' = seconds'.err
    /\ pc' = "timed"
    /\ UNCHANGED <<prog, frags, trail, text, data, hike_data, output, i,
                   distances, speeds, altitudes, dist, dt, t>>

NextTime == TimeToSeconds

SpecTime == InitTime /\ [][NextTime]_vars

-----------------------------------------------------------------------------
(* Properties *)

HasCoords(p) == IsDict(p) /\ "lat" \in DOMAIN p /\ "lng" \in DOMAIN p

IsSentinel(p) == HasCoords(p) /\ p.lat = 0 /\ p.lng = 0

OneZero(p) == HasCoords(p) /\ ((p.lat = 0) # (p.lng = 0))

\* Well-formed objects that carry lat and lng and are no sentinel.
GoodFrags == {f \in WellFormedFrags :
                 HasCoords(Body[f[2]]) /\ ~IsSentinel(Body[f[2]])}

CountIn(fs, S) == Cardinality({j \in 1..Len(fs) : fs[j] \in S})

\* The parser raised: only load_hike_data can, and hike_data is never bound.
ParserRaised == pc = "crashed" /\ hike_data = <<>>

\* The parser returned a list, which hike_data holds from then on.
ParserReturned ==
    \/ pc \in {"check", "halted", "loop", "metrics", "extract", "render"}
    \/ pc = "crashed" /\ hike_data # <<>>

\* C1: map3.py's load_data, on a text of N valid non-sentinel objects with
\* lat and lng and M >= 0 objects missing their closing brace, followed by at
\* most one trailing comma, returns exactly N records.
C1_Resilience ==
    ( /\ prog = "map3"
      /\ pc \notin {"load", "time", "timed"}
      /\ trail \in {<<>>, <<",">>}
      /\ \A j \in 1..Len(frags) : frags[j] \in GoodFrags \cup TruncatedFrags )
    => /\ ParserReturned
       /\ Len(hike_data) = CountIn(frags, GoodFrags)

\* C2: in each parser, every returned record has both lat and lng, and
\* dropping a decoded object that lacks one of them raises nothing.
C2_ValidationFilter ==
    pc \notin {"load", "time", "timed"}
    => /\ ~ParserRaised
       /\ \A j \in 1..Len(hike_data) : HasCoords(hike_data[j])

\* C3: in each parser, whenever it returns, no returned record has lat = 0
\* and lng = 0, and the decoded records with exactly one of lat, lng equal to
\* zero are all returned, in their order.
C3_SentinelExclusion ==
    ParserReturned
    => /\ \A j \in 1..Len(hike_data) : ~IsSentinel(hike_data[j])
       /\ SelectSeq(data, OneZero) = SelectSeq(hike_data, OneZero)

\* C3 witness: a parser decoded a sentinel and a record with exactly one
\* zero coordinate, and returned the second without the first.
C3_Witness ==
    /\ ParserReturned
    /\ \E j \in 1..Len(data) : IsSentinel(data[j])
    /\ \E j \in 1..Len(hike_data) : OneZero(hike_data[j])
    /\ Len(hike_data) < Len(data)

\* What C4 expects of a timestamp: MM*60+SS for 2 numeric components,
\* HH*3600+MM*60+SS for 3, and 0 for every other form.
ExpectedSeconds(ts) ==
    LET strs == Split(ts, ":")
        ok   == \A j \in 1..Len(strs) : IntOk(strs[j])
    IN  IF ok /\ Len(strs) = 2
        THEN IntOf(strs[1]) * 60 + IntOf(strs[2])
        ELSE IF ok /\ Len(strs) = 3
        THEN IntOf(strs[1]) * 3600 + IntOf(strs[2]) * 60 + IntOf(strs[3])
        ELSE 0

\* C4: time_to_seconds(t) never raises and returns MM*60+SS for 2 numeric
\* components, HH*3600+MM*60+SS for 3, and 0 for every other form.
C4_TimestampNormalization ==
    pc = "timed"
    => seconds.err = "none" /\ seconds.v = ExpectedSeconds(t)

\* C5: map3.py's distance / speed loop and altitude extraction never raise
\* on the records load_data returns.
C5_MetricsNeverRaise ==
    prog = "map3" => pc # "crashed" /\ raised = "none"

\* The two records of the iteration that last completed.
LastPrev == hike_data[i - 1]
LastCurr == hike_data[i]
LastDiff ==
    time_to_seconds(LastCurr.timestamp).v
    - time_to_seconds(LastPrev.timestamp).v

\* C6: after every iteration of map3.py's loop over two records with
\* parseable timestamps, the divisor dt is the maximum of the difference of
\* their seconds and 1, so dt >= 1 and speed = dist * 3600 / dt; when the
\* difference is zero or negative dt = 1 and speed = dist * 3600; no run
\* divides by zero.
C6_SpeedFloor ==
    /\ raised # "ZeroDivisionError"
    /\ (prog = "map3" /\ pc \in {"loop", "render"} /\ i >= 2)
       => /\ dt >= 1
          /\ dt = (IF LastDiff > 1 THEN LastDiff ELSE 1)
          /\ speeds[i] = (dist * 3600) \div dt
          /\ (LastDiff <= 0 => dt = 1 /\ speeds[i] = dist * 3600)

\* C6 witness: two consecutive records at different places with the same
\* time of day: dt is 1 and the speed is dist * 3600, not zero.
C6_Witness ==
    /\ prog = "map3" /\ pc \in {"loop", "render"} /\ i >= 2
    /\ LastDiff = 0
    /\ dist > 0
    /\ dt = 1
    /\ speeds[i] = dist * 3600

\* The distance the script adds between two records.
Leg(p, q) ==
    IF prog = "map3" THEN haversine(p.lng, p.lat, q.lng, q.lat)
    ELSE geodesic(<<p.lat, p.lng>>, <<q.lat, q.lng>>)

\* C7: the cumulative distance list of map3.py and map2.py starts at 0, never
\* decreases, grows at each index by the distance between the two records,
\* and has one entry per record once the computation is over.
C7_DistanceMonotonicity ==
    distances # <<>>
    => /\ distances[1] = 0
       /\ Len(distances) <= Len(hike_data)
       /\ \A j \in 2..Len(distances) :
            /\ distances[j] >= distances[j - 1]
            /\ distances[j]
                 = distances[j - 1] + Leg(hike_data[j - 1], hike_data[j])
       /\ (pc = "render" => Len(distances) = Len(hike_data))

\* C7 witness: a finished computation over three records at three places.
C7_Witness ==
    /\ pc = "render"
    /\ Len(hike_data) = 3
    /\ Len(distances) = 3
    /\ 0 < distances[2]
    /\ distances[2] < distances[3]

\* C8: whenever the parser returned an empty list and the check ran, the
\* script has printed "No valid data points found!" last and halted, with
\* nothing raised and no distance, speed or altitude computed.
C8_EmptyResultHalts ==
    (ParserReturned /\ pc # "check" /\ hike_data = <<>>)
    => /\ pc = "halted"
       /\ output # <<>> /\ output[Len(output)] = NoData
       /\ raised = "none"
       /\ distances = <<>> /\ speeds = <<>> /\ altitudes = <<>>

\* C8 witness: every decoded record is a sentinel, and the script halted on
\* the empty result.
C8_Witness ==
    /\ pc = "halted"
    /\ data # <<>>
    /\ \A j \in 1..Len(data) : IsSentinel(data[j])
    /\ output[Len(output)] = NoData

\* C9: map.py's and map2.py's parsers, on a text with a trailing comma made
\* of at least one valid object and one object missing its closing brace,
\* return every well-formed object: as many records as there are well-formed
\* objects (the truncated one being dropped).
C9_TruncatedRecovery ==
    ( /\ prog \in {"map", "map2"}
      /\ pc \notin {"load", "time", "timed"}
      /\ trail = <<",">>
      /\ \A j \in 1..Len(frags) : frags[j] \in GoodFrags \cup TruncatedFrags
      /\ CountIn(frags, TruncatedFrags) = 1
      /\ CountIn(frags, GoodFrags) >= 1 )
    => /\ ParserReturned
       /\ Len(hike_data) = CountIn(frags, GoodFrags)

TrailingSeparators ==
    {<<",">>, <<",", "\n">>, <<",", ",">>, <<",", " ", ",">>}

\* C10: in each parser, a text of well-formed comma-separated objects
\* followed by trailing separators gives the same records as the text
\* without them.
C10_TrailingSeparators ==
    ( /\ pc \notin {"load", "time", "timed"}
      /\ frags # <<>>
      /\ \A j \in 1..Len(frags) : frags[j] \in WellFormedFrags
      /\ trail \in TrailingSeparators )
    => LET r == Load(prog, Render(frags, <<>>)) IN
       /\ hike_data = r.ret
       /\ ParserRaised <=> r.err # "none"

=============================================================================
